---- MODULE Spec2Model ----
(***************************************************************************)
(* A model of the real-time monitoring of AndroidHealthTracker:            *)
(* RealTimeAnalyzer (utils/real_time_analyzer.py) with the alert sinks of  *)
(* utils/alert_manager.py and the risk engine's entry of                   *)
(* utils/risk_manager.py.                                                  *)
(*                                                                         *)
(* Units.  Time is counted in minutes since Monday 00:00 local time.       *)
(* A composite score is counted in hundredths (0..100 for 0.0..1.0) and a  *)
(* signal strength in thousandths (650 for 0.65), so score * 0.7 is the    *)
(* integer score * 7.                                                      *)
(*                                                                         *)
(* Specifications.                                                         *)
(*   Spec            the program as written: start_monitoring and          *)
(*                   stop_monitoring called in any order, the worker       *)
(*                   threads they create, the clock.                       *)
(*   SpecLoop        one monitoring session (the first start_monitoring,   *)
(*                   its thread, stop_monitoring) with the risk engine     *)
(*                   taken by its contract: it returns its parameters or   *)
(*                   raises.  As written it always raises (see             *)
(*                   calculate_risk_parameters below), so that under Spec  *)
(*                   no evaluation gets as far as the alert branch of      *)
(*                   _monitor_stocks; SpecLoop exercises that branch, with *)
(*                   the Twilio credentials present or absent.             *)
(*   SpecClassifier  _determine_real_time_signal applied to every input    *)
(*                   of a bounded set.                                     *)
(*   SpecSignals     the vote combination of generate_signals              *)
(*                   (utils/signal_generator.py) on one bar.               *)
(*   SpecRisk        calculate_risk_parameters on one bar and history,     *)
(*                   with support and resistance bound as written or by    *)
(*                   contract.                                             *)
(*   SpecAnalyze     one call of analyze_stock.                            *)
(*   SpecRsi         the RSI column of calculate_indicators on one bar.    *)
(*   SpecScore       calculate_composite_score on a frame.                 *)
(*   SpecSessions    sessions one after the other, risk engine by          *)
(*                   contract.                                             *)
(*   SpecOverlap     sessions whose workers overlap, risk engine by        *)
(*                   contract.                                             *)
(*   SpecWatchlist   one session as written, with the watchlist buttons    *)
(*                   of app.py.                                            *)
(*   SpecAlerts      notify_app_alert called again and again.              *)
(*   SpecUI          one session, risk engine by contract, with the        *)
(*                   script runs that render the unread alerts.            *)
(***************************************************************************)
EXTENDS Integers, Sequences, FiniteSets, TLC

VARIABLES
    clock,              \* datetime.datetime.now(), in minutes since Monday 00:00
    ticks,              \* number of clock advances so far (bounded)
    monitoring_active,  \* RealTimeAnalyzer.monitoring_active
    stop_event,         \* RealTimeAnalyzer.stop_event (is_set)
    monitoring_thread,  \* RealTimeAnalyzer.monitoring_thread: 0 (None) or a thread index
    last_signal_time,   \* RealTimeAnalyzer.last_signal_time: dict ticker -> time
    threads,            \* every thread created by start_monitoring, in creation order
    selected_stocks,    \* st.session_state.selected_stocks, the list handed to the worker
    app_alerts,         \* st.session_state.app_alerts
    alert_log,          \* st.session_state.alert_log
    twilio_configured,  \* TWILIO_ACCOUNT_SID, TWILIO_AUTH_TOKEN and TWILIO_PHONE_NUMBER all set
    calls,              \* number of start_monitoring / stop_monitoring calls so far (bounded)
    last_call,          \* the latest call and the value it returned
    evals,              \* number of analyze_stock calls so far (bounded)
    missedAt,           \* history: per ticker, when an eligible evaluation last went
                        \* without its alert
    cl_in,              \* the input of the function a function-level specification applies
    cl_out,             \* its result (NoSignal until it is applied)
    rerun               \* the run of the app.py script that is rendering the unread
                        \* alerts (lines 130-154): NoRerun, or its unread_alerts and i

vars == <<clock, ticks, monitoring_active, stop_event, monitoring_thread,
          last_signal_time, threads, selected_stocks, app_alerts, alert_log,
          twilio_configured, calls, last_call, evals, missedAt, cl_in, cl_out, rerun>>

(***************************************************************************)
(* Bounds of the model.                                                    *)
(***************************************************************************)
MaxWorkers == 2
MaxCalls == 3
MaxTicks == 2
MaxEvals == 3

(***************************************************************************)
(* Program constants.                                                      *)
(***************************************************************************)
OpenHour == 9
CloseHour == 16
FirstWeekendDay == 5
SleepMinutes == 1
StrengthThreshold == 650
BullishScore == 60
BearishScore == 40
HoldStrength == 500
WaitDamping == 7

(***************************************************************************)
(* Input sets.                                                             *)
(***************************************************************************)
Phones == {"+15550100"}
NoPhone == ""
AlertFrequencyValues == {2}
\* Monday 08:59, Friday 15:58, Sunday 12:00
StartClocks == {8 * 60 + 59, 4 * 1440 + 15 * 60 + 58, 6 * 1440 + 12 * 60}
ClockSteps == {1}
ScoreValues == {0, 30, 35, 50, 65, 70, 100}
SignalValues == {-1, 0, 1}
LineValues == {0, 1, 2}
Positions == {"FLAT", "LONG", "SHORT"}

Hour(c) == (c \div 60) % 24
Weekday(c) == (c \div 1440) % 7

(***************************************************************************)
(* Rows of the indicator frame, as far as the classifier reads them.       *)
(***************************************************************************)
Row(score, sig, macd, ma) ==
    [composite_score |-> score, signal |-> sig,
     MACD |-> macd, MACD_signal |-> 1, MA_short |-> ma, MA_long |-> 1]

Rows == {Row(s, g, m, a) : s \in ScoreValues, g \in SignalValues,
                           m \in LineValues, a \in LineValues}
\* of the previous row only the MACD and MA columns are read
PrevRows == {Row(50, 0, m, a) : m \in LineValues, a \in LineValues}

\* a frame: its rows (the last two at most matter) and the number of MA_ columns
Frames == {[rows |-> <<p, l>>, ma_cols |-> 2] : p \in PrevRows, l \in Rows}
          \cup {[rows |-> <<l>>, ma_cols |-> n] : l \in Rows, n \in {1, 2}}

(***************************************************************************)
(* RealTimeAnalyzer._determine_real_time_signal                            *)
(***************************************************************************)
Signal(type, strength, score) == [type |-> type, strength |-> strength, score |-> score]

\* a bug to detect: the score and a crossover both required
BullishEvidenceBoth(score, macd_cross, ma_cross) ==
    score > BullishScore /\ (macd_cross \/ ma_cross)
\* lines 162 and 173
BullishEvidence(score, macd_cross, ma_cross) ==
    score > BullishScore \/ macd_cross \/ ma_cross

\* a bug to detect: the score and a crossover both required
BearishEvidenceBoth(score, macd_cross, ma_cross) ==
    score < BearishScore /\ (macd_cross \/ ma_cross)
\* a bug to detect: the crossovers left out of the bearish evidence
BearishEvidenceScoreOnly(score, macd_cross, ma_cross) == score < BearishScore
\* lines 152 and 182
BearishEvidence(score, macd_cross, ma_cross) ==
    score < BearishScore \/ macd_cross \/ ma_cross

\* lines 165 and 177: signal_strength = score, in thousandths
BullStrength(score) == score * 10

\* a bug to detect: the strength of a bearish action not inverted
BearStrengthAsScore(score) == score * 10
\* lines 155 and 186: signal_strength = 1 - score, in thousandths
BearStrength(score) == (100 - score) * 10

\* a bug to detect: the strength of a WAIT not dampened
Undamped(conviction) == conviction * 10
\* lines 181 and 190: conviction * 0.7, in thousandths (conviction in hundredths)
Damped(conviction) == conviction * WaitDamping

determine_real_time_signal(df, position) ==
    LET n == Len(df.rows)
        latest == df.rows[n]
        prev == IF n > 1 THEN df.rows[n - 1] ELSE latest
        score == latest.composite_score
        recent_signal == latest.signal
        macd_bullish_cross == latest.MACD > latest.MACD_signal /\ prev.MACD <= prev.MACD_signal
        macd_bearish_cross == latest.MACD < latest.MACD_signal /\ prev.MACD >= prev.MACD_signal
        ma_bullish_cross == df.ma_cols >= 2 /\ latest.MA_short > latest.MA_long
                                            /\ prev.MA_short <= prev.MA_long
        ma_bearish_cross == df.ma_cols >= 2 /\ latest.MA_short < latest.MA_long
                                            /\ prev.MA_short >= prev.MA_long
        bullish == BullishEvidence(score, macd_bullish_cross, ma_bullish_cross)
        bearish == BearishEvidence(score, macd_bearish_cross, ma_bearish_cross)
    IN  IF position = "LONG"
        THEN IF bearish THEN Signal("SELL", BearStrength(score), score)
                        ELSE Signal("HOLD", HoldStrength, score)
        ELSE IF position = "SHORT"
        THEN IF bullish THEN Signal("COVER", BullStrength(score), score)
                        ELSE Signal("HOLD", HoldStrength, score)
        ELSE IF bullish
             THEN IF recent_signal = 1 THEN Signal("BUY", BullStrength(score), score)
                                       ELSE Signal("WAIT", Damped(score), score)
             ELSE IF bearish
             THEN IF recent_signal = -1 THEN Signal("SHORT", BearStrength(score), score)
                                        ELSE Signal("WAIT", Damped(100 - score), score)
             ELSE Signal("WAIT", HoldStrength, score)

(***************************************************************************)
(* The risk engine, as far as analyze_stock depends on it: the call either *)
(* returns its dictionary or raises.                                       *)
(***************************************************************************)
Returned(v) == [raised |-> FALSE, value |-> v]
Raised(e) == [raised |-> TRUE, value |-> e]

RECURSIVE SeqMin(_)
SeqMin(s) == IF Len(s) = 1 THEN s[1]
             ELSE LET m == SeqMin(Tail(s)) IN IF s[1] < m THEN s[1] ELSE m
RECURSIVE SeqMax(_)
SeqMax(s) == IF Len(s) = 1 THEN s[1]
             ELSE LET m == SeqMax(Tail(s)) IN IF s[1] > m THEN s[1] ELSE m

\* the bars of the look-back window, as far as support and resistance read them
BarHistories == {[Low |-> <<98, 97>>, High |-> <<103, 104>>]}

\* a Python dict, in insertion order
calculate_support_resistance(hist) ==
    << [key |-> "support", value |-> [tag |-> "num", val |-> SeqMin(hist.Low)]],
       [key |-> "resistance", value |-> [tag |-> "num", val |-> SeqMax(hist.High)]] >>

\* "a, b = d" on a dict d binds a and b to the KEYS of d, which are strings
UnpackDict(d) == << [tag |-> "str", val |-> d[1].key], [tag |-> "str", val |-> d[2].key] >>

\* np.isnan: defined on numbers, TypeError on a str (no value modelled is NaN)
np_isnan(x) == IF x.tag = "str" THEN Raised("TypeError") ELSE Returned(FALSE)

calculate_risk_parameters(hist) ==
    LET unpacked == UnpackDict(calculate_support_resistance(hist))
        support == unpacked[1]
    IN  IF np_isnan(support).raised
        THEN Raised("TypeError")
        ELSE Returned("risk_params")

RiskOutcomes == {Returned("risk_params"), Raised("TypeError")}

(***************************************************************************)
(* RealTimeAnalyzer.analyze_stock.  data is what fetch_stock_data and the  *)
(* indicator pipeline deliver for the ticker: fetched "none" (None or an   *)
(* empty frame), or "bars" with the frame df and the bar history hist;     *)
(* pipeline "raise" when an indicator or signal computation raises.        *)
(* The result is None ([ok |-> FALSE]) or the analysis with its signal;    *)
(* raised tells whether an exception leaves the call.                      *)
(***************************************************************************)
NoSignal == Signal("UNKNOWN", 0, 0)
\* no run of the script is between line 131 and the end of the loop of line 134
NoRerun == [unread_alerts |-> <<>>, i |-> 0]
None == [ok |-> FALSE, raised |-> FALSE, signal |-> NoSignal]
Propagated == [ok |-> FALSE, raised |-> TRUE, signal |-> NoSignal]
Analysis(sig) == [ok |-> TRUE, raised |-> FALSE, signal |-> sig]

\* a bug to detect: analyze_stock without its try/except
AnalyzeUnguarded(data, position, risk) ==
    IF data.fetched = "none" THEN None
    ELSE IF data.pipeline = "raise" \/ risk.raised THEN Propagated
    ELSE Analysis(determine_real_time_signal(data.df, position))

\* a bug to detect: the risk engine called outside the try/except
AnalyzeRiskUnguarded(data, position, risk) ==
    IF data.fetched = "none" THEN None
    ELSE IF data.pipeline = "raise" THEN None
    ELSE IF risk.raised THEN Propagated
    ELSE Analysis(determine_real_time_signal(data.df, position))

AnalyzeWith(data, position, risk) ==
    IF data.fetched = "none" THEN None
    ELSE IF data.pipeline = "raise" THEN None
    ELSE IF risk.raised THEN None
    ELSE Analysis(determine_real_time_signal(data.df, position))

analyze_stock(data, position) ==
    AnalyzeWith(data, position, calculate_risk_parameters(data.hist))

\* what the monitoring loop is driven with: the data of an evaluation and the
\* position held in the ticker
NoFrame == [rows |-> <<Row(50, 0, 1, 1)>>, ma_cols |-> 2]
NoData == {[fetched |-> "none", pipeline |-> "ok", df |-> NoFrame, hist |-> h] :
               h \in BarHistories}
BrokenData == {[fetched |-> "bars", pipeline |-> "raise", df |-> NoFrame, hist |-> h] :
                   h \in BarHistories}
\* bars whose latest row has the score and the discrete signal given, no cross
Bars(score, sig) ==
    {[fetched |-> "bars", pipeline |-> "ok",
      df |-> [rows |-> <<Row(50, 0, 1, 1), Row(score, sig, 1, 1)>>, ma_cols |-> 2],
      hist |-> h] : h \in BarHistories}
MonitorInputs ==
    {[data |-> d, position |-> "FLAT"] :
         d \in NoData \cup BrokenData \cup Bars(70, 1) \cup Bars(65, 1) \cup Bars(100, 0)}
    \cup {[data |-> d, position |-> "LONG"] : d \in Bars(70, 1) \cup Bars(30, -1)}

(***************************************************************************)
(* What the data of an evaluation classify as, whether or not the code     *)
(* gets as far as classifying them (history only).                         *)
(***************************************************************************)
AlertEligible(sig) ==
    sig.type \in {"BUY", "SELL", "SHORT", "COVER"} /\ sig.strength > 650

PipelineSignal(data, position) ==
    IF data.fetched = "bars" /\ data.pipeline = "ok"
    THEN determine_real_time_signal(data.df, position)
    ELSE NoSignal

(***************************************************************************)
(* The decisions of start_monitoring, stop_monitoring and _monitor_stocks. *)
(***************************************************************************)
\* a bug to detect: start_monitoring without its guard
StartNeverRefused(active) == FALSE
StartRefused(active) == active

\* a bug to detect: stop_monitoring without its guard
StopNeverRefused(active) == FALSE
StopRefused(active) == ~active

\* a bug to detect: the closing hour taken as still open
MarketClosedLate(c) == Hour(c) < OpenHour \/ Hour(c) > CloseHour \/ Weekday(c) >= FirstWeekendDay
MarketClosed(c) == Hour(c) < OpenHour \/ Hour(c) >= CloseHour \/ Weekday(c) >= FirstWeekendDay

\* a bug to detect: the threshold taken as inclusive and WAIT taken as an action
IsSignificantLoose(sig) ==
    sig.type \in {"BUY", "SELL", "SHORT", "COVER", "WAIT"} /\ sig.strength >= StrengthThreshold
IsSignificant(sig) ==
    sig.type \in {"BUY", "SELL", "SHORT", "COVER"} /\ sig.strength > StrengthThreshold

CanSendAlert(lst, ticker, now, alert_frequency) ==
    IF ticker \in DOMAIN lst
    THEN ~(now - lst[ticker] < alert_frequency)
    ELSE TRUE

\* a bug to detect: the SMS sent whether or not a phone number is given
ShouldSendSmsAlways(alert_phone) == TRUE
ShouldSendSms(alert_phone) == alert_phone /= NoPhone

DictSet(d, k, v) == [x \in (DOMAIN d) \cup {k} |-> IF x = k THEN v ELSE d[x]]

(***************************************************************************)
(* alert_manager.py                                                        *)
(***************************************************************************)
AlertCap == 50

\* a bug to detect: the trim keeping the first 50 instead of the last 50
NotifyKeepOldest(alerts, ticker, signal_type, score, now, origin) ==
    LET added == Append(alerts, [timestamp |-> now, ticker |-> ticker,
                                 signal_type |-> signal_type, score |-> score,
                                 is_read |-> FALSE, origin |-> origin,
                                 shown |-> FALSE])
    IN  IF Len(added) > AlertCap THEN SubSeq(added, 1, AlertCap) ELSE added

\* origin and shown are history: the strength of the signal, the time of its
\* evaluation, the alert_frequency and the index of the thread that emits it;
\* whether the sidebar has displayed the alert
notify_app_alert(alerts, ticker, signal_type, score, now, origin) ==
    LET added == Append(alerts, [timestamp |-> now, ticker |-> ticker,
                                 signal_type |-> signal_type, score |-> score,
                                 is_read |-> FALSE, origin |-> origin,
                                 shown |-> FALSE])
    IN  IF Len(added) > AlertCap
        THEN SubSeq(added, Len(added) - AlertCap + 1, Len(added))
        ELSE added

\* send_sms_alert: outcome is what the Twilio client does, "sent" or "error"
send_sms_alert(log, configured, outcome, to, ticker, signal_type) ==
    IF ~configured
    THEN [ret |-> FALSE, raised |-> FALSE, log |-> log]
    ELSE IF outcome = "sent"
    THEN [ret |-> TRUE, raised |-> FALSE,
          log |-> Append(log, [type |-> "SMS", recipient |-> to, ticker |-> ticker,
                               signal_type |-> signal_type, status |-> "sent"])]
    ELSE [ret |-> FALSE, raised |-> FALSE,
          log |-> Append(log, [type |-> "SMS", recipient |-> to, ticker |-> ticker,
                               signal_type |-> signal_type, status |-> "failed"])]

(***************************************************************************)
(* The state.  A thread of _monitor_stocks is at                           *)
(*   "head"   the test of "while not self.stop_event.is_set()"             *)
(*   "iter"   the for loop, about to take ticker number i of the watchlist *)
(*   "emit"   past the cooldown check with can_send_alert true (l. 290)    *)
(*   "sms"    about to call send_trading_signal_alert (l. 303)             *)
(*   "sleep"  in time.sleep(60), until the clock reaches wake              *)
(*   "done"   returned, the stop flag seen                                 *)
(*   "crashed" ended by an exception that left the loop                    *)
(* stopped, tickAfterStop, last, evalAt and atStart are history: a         *)
(* stop_monitoring returned True while the thread was alive; the thread    *)
(* began a tick after that; how its latest pass of the loop body ended;    *)
(* when the evaluation in hand was made; the watchlist as it was when the  *)
(* tick in hand began.                                                     *)
(***************************************************************************)
NewThread(alert_phone, alert_frequency) ==
    [pc |-> "head", i |-> 0, ticker |-> "", alert_phone |-> alert_phone,
     alert_frequency |-> alert_frequency, wake |-> 0, sig |-> NoSignal,
     evalAt |-> 0, stopped |-> FALSE, tickAfterStop |-> FALSE, last |-> "none",
     atStart |-> <<>>]

Alive(t) == t.pc \notin {"done", "crashed"}

InitMonitor ==
    /\ clock \in StartClocks
    /\ ticks = 0
    /\ monitoring_active = FALSE
    /\ stop_event = FALSE
    /\ monitoring_thread = 0
    /\ last_signal_time = [t \in {} |-> 0]
    /\ threads = <<>>
    /\ selected_stocks = <<"AAA", "BBB">>
    /\ app_alerts = <<>>
    /\ alert_log = <<>>
    /\ calls = 0
    /\ last_call = [op |-> "none", ret |-> FALSE]
    /\ evals = 0
    /\ missedAt = [t \in {} |-> 0]

Init ==
    /\ InitMonitor
    /\ twilio_configured = TRUE
    /\ cl_in = [df |-> NoFrame, position |-> "FLAT"]
    /\ cl_out = NoSignal
    /\ rerun = NoRerun

monitorVars == <<clock, ticks, monitoring_active, stop_event, monitoring_thread,
                 last_signal_time, threads, selected_stocks, app_alerts, alert_log,
                 twilio_configured, calls, last_call, evals, missedAt>>

(***************************************************************************)
(* The clock.                                                              *)
(***************************************************************************)
Tick ==
    /\ ticks < MaxTicks
    /\ \E d \in ClockSteps : clock' = clock + d
    /\ ticks' = ticks + 1
    /\ UNCHANGED <<monitoring_active, stop_event, monitoring_thread, last_signal_time,
                   threads, selected_stocks, app_alerts, alert_log, twilio_configured,
                   calls, last_call, evals, missedAt, cl_in, cl_out, rerun>>

(***************************************************************************)
(* RealTimeAnalyzer.start_monitoring.  alert_log and app_alerts exist      *)
(* already (app.py creates them), so lines 225-230 change nothing.         *)
(***************************************************************************)
StartMonitoring ==
    /\ calls < MaxCalls
    /\ \E alert_phone \in Phones \cup {NoPhone}, alert_frequency \in AlertFrequencyValues :
         IF StartRefused(monitoring_active)
         THEN /\ last_call' = [op |-> "start", ret |-> FALSE]
              /\ UNCHANGED <<monitoring_active, stop_event, monitoring_thread, threads>>
         ELSE /\ Len(threads) < MaxWorkers
              /\ stop_event' = FALSE
              /\ monitoring_active' = TRUE
              /\ threads' = Append(threads, NewThread(alert_phone, alert_frequency))
              /\ monitoring_thread' = Len(threads) + 1
              /\ last_call' = [op |-> "start", ret |-> TRUE]
    /\ calls' = calls + 1
    /\ UNCHANGED <<clock, ticks, last_signal_time, selected_stocks, app_alerts, alert_log,
                   twilio_configured, evals, missedAt, cl_in, cl_out, rerun>>

(***************************************************************************)
(* RealTimeAnalyzer.stop_monitoring                                        *)
(***************************************************************************)
StopMonitoring ==
    /\ calls < MaxCalls
    /\ IF StopRefused(monitoring_active)
       THEN /\ last_call' = [op |-> "stop", ret |-> FALSE]
            /\ UNCHANGED <<monitoring_active, stop_event, threads>>
       ELSE /\ stop_event' = TRUE
            /\ monitoring_active' = FALSE
            /\ last_call' = [op |-> "stop", ret |-> TRUE]
            /\ threads' = [w \in DOMAIN threads |->
                             IF Alive(threads[w])
                             THEN [threads[w] EXCEPT !.stopped = TRUE]
                             ELSE threads[w]]
    /\ calls' = calls + 1
    /\ UNCHANGED <<clock, ticks, monitoring_thread, last_signal_time, selected_stocks,
                   app_alerts, alert_log, twilio_configured, evals, missedAt, cl_in, cl_out, rerun>>

(***************************************************************************)
(* RealTimeAnalyzer._monitor_stocks                                        *)
(***************************************************************************)
\* line 267: the loop test
WorkerHead(w) ==
    /\ threads[w].pc = "head"
    /\ threads' = [threads EXCEPT ![w] =
                     IF stop_event
                     THEN [@ EXCEPT !.pc = "done"]
                     ELSE [@ EXCEPT !.pc = "iter", !.i = 1,
                                    !.tickAfterStop = @ \/ threads[w].stopped,
                                    !.atStart = selected_stocks]]
    /\ UNCHANGED <<clock, ticks, monitoring_active, stop_event, monitoring_thread,
                   last_signal_time, selected_stocks, app_alerts, alert_log,
                   twilio_configured, calls, last_call, evals, missedAt, cl_in, cl_out, rerun>>

NextTicker(t, how) == [t EXCEPT !.pc = "iter", !.i = @ + 1, !.last = how,
                                !.sig = NoSignal, !.evalAt = 0]

\* lines 268-288: one pass of the for loop up to the cooldown check; analysis
\* is what analyze_stock returned for data and position.  A failed evaluation
\* is "missed" when its data classify as alert-eligible and the cooldown of the
\* ticker is over, and "missed again" when the previous miss of the ticker is
\* less than alert_frequency old.
Evaluate(w, analysis, data, position) ==
    LET t == threads[w]
        ticker == selected_stocks[t.i]
        miss == /\ AlertEligible(PipelineSignal(data, position))
                /\ CanSendAlert(last_signal_time, ticker, clock, t.alert_frequency)
        again == miss /\ ~CanSendAlert(missedAt, ticker, clock, t.alert_frequency)
        failed == IF again THEN "missed again" ELSE IF miss THEN "missed" ELSE "failed"
    IN  IF analysis.raised
        THEN /\ threads' = [threads EXCEPT ![w] = [@ EXCEPT !.pc = "crashed", !.last = failed]]
             /\ missedAt' = IF miss THEN DictSet(missedAt, ticker, clock) ELSE missedAt
        ELSE IF ~analysis.ok
        THEN /\ threads' = [threads EXCEPT ![w] = NextTicker(@, failed)]
             /\ missedAt' = IF miss THEN DictSet(missedAt, ticker, clock) ELSE missedAt
        ELSE IF ~IsSignificant(analysis.signal)
        THEN /\ threads' = [threads EXCEPT ![w] = NextTicker(@, "quiet")]
             /\ UNCHANGED missedAt
        ELSE IF ~CanSendAlert(last_signal_time, ticker, clock, t.alert_frequency)
        THEN /\ threads' = [threads EXCEPT ![w] = NextTicker(@, "cooldown")]
             /\ UNCHANGED missedAt
        ELSE /\ threads' = [threads EXCEPT ![w] =
                              [@ EXCEPT !.pc = "emit", !.ticker = ticker, !.evalAt = clock,
                                        !.sig = analysis.signal, !.last = "alert"]]
             /\ UNCHANGED missedAt

ForLoop(w, analysis, data, position) ==
    /\ threads[w].pc = "iter"
    /\ IF threads[w].i > Len(selected_stocks)
       THEN /\ threads' = [threads EXCEPT ![w] =
                             [@ EXCEPT !.pc = "sleep", !.wake = clock + SleepMinutes]]
            /\ UNCHANGED <<evals, missedAt>>
       ELSE IF MarketClosed(clock)
       THEN /\ threads' = [threads EXCEPT ![w] = NextTicker(@, "closed")]
            /\ UNCHANGED <<evals, missedAt>>
       ELSE /\ evals < MaxEvals
            /\ evals' = evals + 1
            /\ Evaluate(w, analysis, data, position)
    /\ UNCHANGED <<clock, ticks, monitoring_active, stop_event, monitoring_thread,
                   last_signal_time, selected_stocks, app_alerts, alert_log,
                   twilio_configured, calls, last_call, cl_in, cl_out, rerun>>

\* the program as written
WorkerIter(w) ==
    \E in \in MonitorInputs :
        ForLoop(w, analyze_stock(in.data, in.position), in.data, in.position)

\* the risk engine taken by its contract
WorkerIterLoop(w) ==
    \E in \in MonitorInputs, risk \in RiskOutcomes :
        ForLoop(w, AnalyzeWith(in.data, in.position, risk), in.data, in.position)

\* lines 290-300: the stamp and the in-app alert
WorkerEmit(w) ==
    LET t == threads[w] IN
    /\ t.pc = "emit"
    /\ last_signal_time' = DictSet(last_signal_time, t.ticker, clock)
    /\ app_alerts' = notify_app_alert(app_alerts, t.ticker, t.sig.type, t.sig.score, clock,
                                      [strength |-> t.sig.strength, evalAt |-> t.evalAt,
                                       freq |-> t.alert_frequency, by |-> w])
    /\ threads' = [threads EXCEPT ![w] =
                     IF ShouldSendSms(t.alert_phone)
                     THEN [@ EXCEPT !.pc = "sms"]
                     ELSE NextTicker(@, "alert")]
    /\ UNCHANGED <<clock, ticks, monitoring_active, stop_event, monitoring_thread,
                   selected_stocks, alert_log, twilio_configured, calls, last_call,
                   evals, missedAt, cl_in, cl_out, rerun>>

\* lines 303-310: send_trading_signal_alert
WorkerSms(w) ==
    LET t == threads[w] IN
    /\ t.pc = "sms"
    /\ \E outcome \in {"sent", "error"} :
         LET r == send_sms_alert(alert_log, twilio_configured, outcome,
                                 t.alert_phone, t.ticker, t.sig.type)
         IN  /\ alert_log' = r.log
             /\ threads' = [threads EXCEPT ![w] =
                              IF r.raised
                              THEN [@ EXCEPT !.pc = "crashed", !.last = "sms failed"]
                              ELSE IF r.ret
                              THEN NextTicker(@, "sms sent")
                              ELSE NextTicker(@, "sms failed")]
    /\ UNCHANGED <<clock, ticks, monitoring_active, stop_event, monitoring_thread,
                   last_signal_time, selected_stocks, app_alerts, twilio_configured,
                   calls, last_call, evals, missedAt, cl_in, cl_out, rerun>>

\* line 313: time.sleep(60) returns
WorkerWake(w) ==
    /\ threads[w].pc = "sleep"
    /\ clock >= threads[w].wake
    /\ threads' = [threads EXCEPT ![w] = [@ EXCEPT !.pc = "head", !.wake = 0]]
    /\ UNCHANGED <<clock, ticks, monitoring_active, stop_event, monitoring_thread,
                   last_signal_time, selected_stocks, app_alerts, alert_log,
                   twilio_configured, calls, last_call, evals, missedAt, cl_in, cl_out, rerun>>

Next ==
    \/ Tick
    \/ StartMonitoring
    \/ StopMonitoring
    \/ \E w \in DOMAIN threads : WorkerHead(w)
    \/ \E w \in DOMAIN threads : WorkerIter(w)
    \/ \E w \in DOMAIN threads : WorkerWake(w)

Spec == Init /\ [][Next]_vars

\* one monitoring session: the first start_monitoring and its thread
StartSession == threads = <<>> /\ StartMonitoring

NextLoop ==
    \/ Tick
    \/ StartSession
    \/ StopMonitoring
    \/ \E w \in DOMAIN threads : WorkerHead(w)
    \/ \E w \in DOMAIN threads : WorkerIterLoop(w)
    \/ \E w \in DOMAIN threads : WorkerEmit(w)
    \/ \E w \in DOMAIN threads : WorkerSms(w)
    \/ \E w \in DOMAIN threads : WorkerWake(w)

InitLoop ==
    /\ InitMonitor
    /\ twilio_configured \in BOOLEAN
    /\ cl_in = [df |-> NoFrame, position |-> "FLAT"]
    /\ cl_out = NoSignal
    /\ rerun = NoRerun

SpecLoop == InitLoop /\ [][NextLoop]_vars

(***************************************************************************)
(* SpecClassifier: _determine_real_time_signal on every frame of Frames    *)
(* and every position.                                                     *)
(***************************************************************************)
InitClassifier ==
    /\ clock = 0
    /\ ticks = 0
    /\ monitoring_active = FALSE
    /\ stop_event = FALSE
    /\ monitoring_thread = 0
    /\ last_signal_time = [t \in {} |-> 0]
    /\ threads = <<>>
    /\ selected_stocks = <<>>
    /\ app_alerts = <<>>
    /\ alert_log = <<>>
    /\ twilio_configured = FALSE
    /\ calls = 0
    /\ last_call = [op |-> "none", ret |-> FALSE]
    /\ evals = 0
    /\ missedAt = [t \in {} |-> 0]
    /\ cl_in \in {[df |-> f, position |-> p] : f \in Frames, p \in Positions}
    /\ cl_out = NoSignal
    /\ rerun = NoRerun

Classify ==
    /\ cl_out = NoSignal
    /\ cl_out' = determine_real_time_signal(cl_in.df, cl_in.position)
    /\ UNCHANGED <<monitorVars, cl_in, rerun>>

NextClassifier == Classify

SpecClassifier == InitClassifier /\ [][NextClassifier]_vars

(***************************************************************************)
(* SpecSignals: the combination of the votes in generate_signals           *)
(* (signal_generator.py, lines 70-81) on one bar.  A column name is the    *)
(* sequence of its parts between underscores; a bar is the sequence of its *)
(* columns in the order calculate_indicators and generate_signals create   *)
(* them.                                                                   *)
(***************************************************************************)
VoteValues == {-1, 0, 1}
\* the MACD signal line (the EMA of MACD), in hundredths
SignalLineValues == {-50, 0, 50}

Column(name, value) == [name |-> name, value |-> value]

SignalBar(ma, rsi, macd, bb, line) ==
    << Column(<<"Close">>, 100), Column(<<"MA", "20">>, 100), Column(<<"MA", "50">>, 100),
       Column(<<"RSI">>, 50), Column(<<"MACD">>, line), Column(<<"MACD", "signal">>, line),
       Column(<<"MACD", "hist">>, 0), Column(<<"BB", "upper">>, 110),
       Column(<<"BB", "lower">>, 90), Column(<<"signal">>, 0),
       Column(<<"ma", "cross">>, ma), Column(<<"rsi", "signal">>, rsi),
       Column(<<"macd", "cross">>, macd), Column(<<"bb", "signal">>, bb) >>

SignalBars == {SignalBar(ma, rsi, macd, bb, line) :
                   ma \in VoteValues, rsi \in VoteValues, macd \in VoteValues,
                   bb \in VoteValues, line \in SignalLineValues}

\* line 73: col.endswith('_signal') or col.endswith('_cross')
IsSignalColumn(name) == Len(name) >= 2 /\ name[Len(name)] \in {"signal", "cross"}

signal_columns(bar) == {k \in DOMAIN bar : IsSignalColumn(bar[k].name)}

\* lines 76-81: the -1 of line 81 is assigned after the +1 of line 80
combine_signals(bar) ==
    LET cols == signal_columns(bar)
        positive_signals == Cardinality({k \in cols : bar[k].value > 0})
        negative_signals == Cardinality({k \in cols : bar[k].value < 0})
    IN  IF cols = {} THEN 0
        ELSE IF negative_signals >= 2 THEN -1
        ELSE IF positive_signals >= 2 THEN 1
        ELSE 0

InitSignals ==
    /\ clock = 0
    /\ ticks = 0
    /\ monitoring_active = FALSE
    /\ stop_event = FALSE
    /\ monitoring_thread = 0
    /\ last_signal_time = [t \in {} |-> 0]
    /\ threads = <<>>
    /\ selected_stocks = <<>>
    /\ app_alerts = <<>>
    /\ alert_log = <<>>
    /\ twilio_configured = FALSE
    /\ calls = 0
    /\ last_call = [op |-> "none", ret |-> FALSE]
    /\ evals = 0
    /\ missedAt = [t \in {} |-> 0]
    /\ cl_in \in {[bar |-> b] : b \in SignalBars}
    /\ cl_out = NoSignal
    /\ rerun = NoRerun

GenerateSignal ==
    /\ cl_out = NoSignal
    /\ cl_out' = [signal |-> combine_signals(cl_in.bar)]
    /\ UNCHANGED <<monitorVars, cl_in, rerun>>

NextSignals == GenerateSignal

SpecSignals == InitSignals /\ [][NextSignals]_vars

(***************************************************************************)
(* SpecRisk: calculate_risk_parameters (risk_manager.py).  Prices come in  *)
(* whole currency units and are computed with in ten-thousandths of a unit *)
(* (Money), in which x * 0.99, x * 0.95 and x * 0.01 are exact; a score is *)
(* in hundredths, risk_percentage in tenths of a percent.  The Average     *)
(* True Range of the history is an input: "nan" (fewer bars than the       *)
(* period) or a number of currency units.                                  *)
(* binding tells how support and resistance are bound at line 32: "keys"   *)
(* is the code as written (the unpacking of a dict yields its keys),       *)
(* "values" is the engine by its contract (the two prices).                *)
(***************************************************************************)
Money(units) == units * 10000
Cent == 100

RiskPrices == {98, 100}
RiskScores == {30, 50, 70}
\* atr.iloc[-1]: NaN, or a number of currency units
AtrValues == {[tag |-> "nan", val |-> 0]} \cup {[tag |-> "num", val |-> a] : a \in {0, 1, 3, 8}}
AtrPeriod == 14
RiskPercentages == {10, 50}
Bindings == {"keys", "values"}
\* a history whose bars all traded at one price
FlatHistory(p) == [Low |-> <<p, p>>, High |-> <<p, p>>]
\* BarHistories, a history with a bar of Low 0 (no positive support), flat ones
RiskHistories ==
    BarHistories \cup {[Low |-> <<0, 97>>, High |-> <<103, 104>>]}
                 \cup {FlatHistory(p) : p \in RiskPrices}

RECURSIVE SumRange(_, _)
SumRange(hist, n) ==
    IF n = 0 THEN 0 ELSE hist.High[n] - hist.Low[n] + SumRange(hist, n - 1)

\* calculate_atr: the mean of the true range over the last AtrPeriod bars, and a
\* bar's true range is at least High - Low; NaN when there are fewer bars
AtrOfHistory(hist, atr) ==
    atr.tag = "nan" \/ AtrPeriod * atr.val >= SumRange(hist, Len(hist.Low))

\* the latest bar is the last one of the history, and Low <= Close <= High
CloseOfHistory(hist, price) ==
    hist.Low[Len(hist.Low)] <= price /\ price <= hist.High[Len(hist.High)]

Max2(a, b) == IF a >= b THEN a ELSE b
Min2(a, b) == IF a <= b THEN a ELSE b
Abs(a) == IF a >= 0 THEN a ELSE -a

\* round(x, 2): to the nearest cent, a tie to the even cent
Round2(x) ==
    LET q == x \div Cent
        r == x % Cent
    IN  IF 2 * r < Cent THEN q * Cent
        ELSE IF 2 * r > Cent THEN (q + 1) * Cent
        ELSE IF q % 2 = 0 THEN q * Cent ELSE (q + 1) * Cent

\* "support, resistance = d": the values by contract, the keys as written
BindLevels(hist, binding) ==
    LET d == calculate_support_resistance(hist)
    IN  IF binding = "keys" THEN UnpackDict(d)
        ELSE << [tag |-> "num", val |-> Money(d[1].value.val)],
                [tag |-> "num", val |-> Money(d[2].value.val)] >>

\* lines 17-93, with the levels as line 32 binds them
risk_parameters(price, atr, composite_score, levels, risk_percentage) ==
    LET current_price == Money(price)
        latest_atr == IF atr.tag = "nan" THEN current_price \div 100 ELSE Money(atr.val)
        is_bullish == composite_score > 60
        is_bearish == composite_score < 40
    IN  IF np_isnan(levels[1]).raised \/ np_isnan(levels[2]).raised
        THEN Raised("TypeError")
        ELSE
        LET support == IF levels[1].val <= 0 THEN (current_price * 95) \div 100
                       ELSE levels[1].val
            resistance == IF levels[2].val <= 0 THEN (current_price * 105) \div 100
                          ELSE levels[2].val
            entry_price == current_price
            stop0 == IF is_bullish
                     THEN Max2((support * 99) \div 100, current_price - 2 * latest_atr)
                     ELSE IF is_bearish
                     THEN Min2((resistance * 101) \div 100, current_price + 2 * latest_atr)
                     ELSE current_price - latest_atr
            take_profit == IF is_bullish THEN entry_price + 2 * (entry_price - stop0)
                           ELSE IF is_bearish THEN entry_price - 2 * (stop0 - entry_price)
                           ELSE current_price + latest_atr
            max_risk_amount == (current_price * risk_percentage) \div 1000
            stop_loss == IF is_bullish /\ entry_price - stop0 > max_risk_amount
                         THEN entry_price - max_risk_amount
                         ELSE IF is_bearish /\ stop0 - entry_price > max_risk_amount
                         THEN entry_price + max_risk_amount
                         ELSE stop0
        IN  Returned([entry_price |-> Round2(entry_price),
                      stop_loss |-> Round2(stop_loss),
                      take_profit |-> Round2(take_profit)])

RiskInputs ==
    {in \in [price : RiskPrices, atr : AtrValues, composite_score : RiskScores,
             hist : RiskHistories, risk_percentage : RiskPercentages,
             binding : Bindings] :
         AtrOfHistory(in.hist, in.atr) /\ CloseOfHistory(in.hist, in.price)}

InitRisk ==
    /\ clock = 0
    /\ ticks = 0
    /\ monitoring_active = FALSE
    /\ stop_event = FALSE
    /\ monitoring_thread = 0
    /\ last_signal_time = [t \in {} |-> 0]
    /\ threads = <<>>
    /\ selected_stocks = <<>>
    /\ app_alerts = <<>>
    /\ alert_log = <<>>
    /\ twilio_configured = FALSE
    /\ calls = 0
    /\ last_call = [op |-> "none", ret |-> FALSE]
    /\ evals = 0
    /\ missedAt = [t \in {} |-> 0]
    /\ cl_in \in RiskInputs
    /\ cl_out = NoSignal
    /\ rerun = NoRerun

CalculateRisk ==
    /\ cl_out = NoSignal
    /\ cl_out' = risk_parameters(cl_in.price, cl_in.atr, cl_in.composite_score,
                                 BindLevels(cl_in.hist, cl_in.binding),
                                 cl_in.risk_percentage)
    /\ UNCHANGED <<monitorVars, cl_in, rerun>>

NextRisk == CalculateRisk

SpecRisk == InitRisk /\ [][NextRisk]_vars

(***************************************************************************)
(* SpecAnalyze: one call of analyze_stock.  The data are no bars, bars on  *)
(* which the pipeline raises, or bars of every score and discrete signal;  *)
(* the risk engine is the code as written (it raises) or, by its contract, *)
(* returns its dictionary.                                                 *)
(***************************************************************************)
AnalyzeInputs ==
    {[data |-> d, position |-> p, risk |-> r] :
         d \in NoData \cup BrokenData
                \cup UNION {Bars(c, g) : c \in ScoreValues, g \in SignalValues},
         p \in Positions,
         r \in RiskOutcomes \cup {calculate_risk_parameters(h) : h \in BarHistories}}

InitAnalyze ==
    /\ clock = 0
    /\ ticks = 0
    /\ monitoring_active = FALSE
    /\ stop_event = FALSE
    /\ monitoring_thread = 0
    /\ last_signal_time = [t \in {} |-> 0]
    /\ threads = <<>>
    /\ selected_stocks = <<>>
    /\ app_alerts = <<>>
    /\ alert_log = <<>>
    /\ twilio_configured = FALSE
    /\ calls = 0
    /\ last_call = [op |-> "none", ret |-> FALSE]
    /\ evals = 0
    /\ missedAt = [t \in {} |-> 0]
    /\ cl_in \in AnalyzeInputs
    /\ cl_out = NoSignal
    /\ rerun = NoRerun

AnalyzeStock ==
    /\ cl_out = NoSignal
    /\ cl_out' = AnalyzeWith(cl_in.data, cl_in.position, cl_in.risk)
    /\ UNCHANGED <<monitorVars, cl_in, rerun>>

NextAnalyze == AnalyzeStock

SpecAnalyze == InitAnalyze /\ [][NextAnalyze]_vars

(***************************************************************************)
(* SpecRsi: the RSI column of calculate_indicators (indicators.py 31-37,   *)
(* 52) on one bar whose rolling window is full.  The input is the sequence *)
(* of Close differences of the window (the model's window has RsiWindow    *)
(* bars, the code's default rsi_period is 14); the RSI is counted in       *)
(* hundredths of a point.  Floating-point values are tagged: a number, NaN *)
(* or +infinity.                                                           *)
(***************************************************************************)
RsiWindow == 3
DeltaValues == {-2, -1, 0, 1, 2}
DeltaWindows == [1..RsiWindow -> DeltaValues]

Num(v) == [tag |-> "num", val |-> v]
NaN == [tag |-> "nan", val |-> 0]
Inf == [tag |-> "inf", val |-> 0]

RECURSIVE SumGain(_, _)
SumGain(delta, n) ==
    IF n = 0 THEN 0
    ELSE (IF delta[n] > 0 THEN delta[n] ELSE 0) + SumGain(delta, n - 1)
RECURSIVE SumLoss(_, _)
SumLoss(delta, n) ==
    IF n = 0 THEN 0
    ELSE (IF delta[n] < 0 THEN -delta[n] ELSE 0) + SumLoss(delta, n - 1)

\* rs = gain / loss in IEEE arithmetic, kept as the pair of window sums
RelativeStrength(gain, loss) ==
    IF loss = 0 THEN (IF gain = 0 THEN NaN ELSE Inf)
    ELSE [tag |-> "num", val |-> 0, gain |-> gain, loss |-> loss]

\* 100 - (100 / (1 + rs))
RsiOf(rs) ==
    IF rs.tag = "nan" THEN NaN
    ELSE IF rs.tag = "inf" THEN Num(10000)
    ELSE Num((10000 * rs.gain) \div (rs.gain + rs.loss))

\* dataframe.fillna(0, inplace=True)
fillna(x) == IF x.tag = "nan" THEN 0 ELSE x.val

calculate_rsi(delta) ==
    LET gain == SumGain(delta, RsiWindow)
        loss == SumLoss(delta, RsiWindow)
    IN  fillna(RsiOf(RelativeStrength(gain, loss)))

InitRsi ==
    /\ clock = 0
    /\ ticks = 0
    /\ monitoring_active = FALSE
    /\ stop_event = FALSE
    /\ monitoring_thread = 0
    /\ last_signal_time = [t \in {} |-> 0]
    /\ threads = <<>>
    /\ selected_stocks = <<>>
    /\ app_alerts = <<>>
    /\ alert_log = <<>>
    /\ twilio_configured = FALSE
    /\ calls = 0
    /\ last_call = [op |-> "none", ret |-> FALSE]
    /\ evals = 0
    /\ missedAt = [t \in {} |-> 0]
    /\ cl_in \in [delta : DeltaWindows]
    /\ cl_out = NoSignal
    /\ rerun = NoRerun

CalculateRsi ==
    /\ cl_out = NoSignal
    /\ cl_out' = [RSI |-> calculate_rsi(cl_in.delta)]
    /\ UNCHANGED <<monitorVars, cl_in, rerun>>

NextRsi == CalculateRsi

SpecRsi == InitRsi /\ [][NextRsi]_vars

(***************************************************************************)
(* SpecScore: calculate_composite_score (signal_generator.py 85-182) on a  *)
(* frame of FrameLen rows as calculate_indicators leaves them (NaN filled  *)
(* with 0, so the rows before a rolling window is full hold 0 in its       *)
(* column).  Prices and indicator values are whole numbers, the RSI is in  *)
(* points, a component and the score are in thousandths, tagged as a       *)
(* number, NaN, +infinity ("inf") or -infinity ("ninf").                   *)
(***************************************************************************)
FrameLen == 2
NegInf == [tag |-> "ninf", val |-> 0]

\* MA_20 and MA_50: both windows filling, the long one filling, both full
MaPairs == {<<0, 0>>, <<100, 0>>, <<100, 100>>, <<102, 100>>}
\* BB_lower and BB_upper: window filling, no movement, around and above Close
BandPairs == {<<0, 0>>, <<100, 100>>, <<96, 104>>, <<101, 109>>}
ScoreRows ==
    {r \in [Close : {100}, RSI : {0, 100}, MACD_hist : {-1, 0, 1},
            MA : MaPairs, BB : BandPairs] :
        \* MA_20 and the bands roll over the same 20 bars
        (r.MA[1] = 0) <=> (r.BB = <<0, 0>>)}
ScoreFrames == [1..FrameLen -> ScoreRows]

\* a / b on floating-point numbers, the quotient in thousandths
FloatDiv(a, b) ==
    IF b = 0 THEN (IF a = 0 THEN NaN ELSE IF a > 0 THEN Inf ELSE NegInf)
    ELSE Num((a * 1000) \div b)

\* Series.clip(0, 1): NaN stays NaN
Clip(x) ==
    IF x.tag = "nan" THEN NaN
    ELSE IF x.tag = "inf" THEN Num(1000)
    ELSE IF x.tag = "ninf" THEN Num(0)
    ELSE Num(Max2(0, Min2(1000, x.val)))

\* 1.0 - x
OneMinus(x) ==
    IF x.tag = "nan" THEN NaN
    ELSE IF x.tag = "inf" THEN NegInf
    ELSE IF x.tag = "ninf" THEN Inf
    ELSE Num(1000 - x.val)

\* Series.abs().max(): NaN is skipped, NaN when nothing is left
RECURSIVE AbsMax(_, _)
AbsMax(xs, n) ==
    IF n = 0 THEN NaN
    ELSE LET rest == AbsMax(xs, n - 1)
             x == xs[n]
         IN  IF x.tag = "nan" THEN rest
             ELSE IF x.tag \in {"inf", "ninf"} \/ rest.tag = "inf" THEN Inf
             ELSE IF rest.tag = "nan" THEN Num(Abs(x.val))
             ELSE Num(Max2(Abs(x.val), rest.val))

\* (x / (2 * m)) + 0.5, clipped, or the scalar 0.5 when m == 0
Normalised(x, m) ==
    IF m.tag = "num" /\ m.val = 0 THEN Num(500)
    ELSE IF m.tag = "nan" \/ x.tag = "nan" THEN NaN
    ELSE IF m.tag = "inf" THEN (IF x.tag = "num" THEN Num(500) ELSE NaN)
    ELSE Clip(Num((x.val * 1000) \div (2 * m.val) + 500))

rsi_component(row) == Num(1000 - row.RSI * 10)
macd_hist(row) == Num(row.MACD_hist)
ma_diff(row) == FloatDiv(row.MA[1] - row.MA[2], row.MA[2])
bb_component(row) ==
    Clip(OneMinus(FloatDiv(row.Close - row.BB[1], row.BB[2] - row.BB[1])))

\* the weighted sum of four components of weight 0.25, clipped
Combine(a, b, c, d) ==
    IF \E x \in {a, b, c, d} : x.tag = "nan" THEN NaN
    ELSE Clip(Num((a.val + b.val + c.val + d.val) \div 4))

calculate_composite_score(frame) ==
    LET hist_max == AbsMax([n \in 1..FrameLen |-> macd_hist(frame[n])], FrameLen)
        max_diff == AbsMax([n \in 1..FrameLen |-> ma_diff(frame[n])], FrameLen)
    IN  [n \in 1..FrameLen |->
            Combine(rsi_component(frame[n]),
                    Normalised(macd_hist(frame[n]), hist_max),
                    Normalised(ma_diff(frame[n]), max_diff),
                    bb_component(frame[n]))]

InitScore ==
    /\ clock = 0
    /\ ticks = 0
    /\ monitoring_active = FALSE
    /\ stop_event = FALSE
    /\ monitoring_thread = 0
    /\ last_signal_time = [t \in {} |-> 0]
    /\ threads = <<>>
    /\ selected_stocks = <<>>
    /\ app_alerts = <<>>
    /\ alert_log = <<>>
    /\ twilio_configured = FALSE
    /\ calls = 0
    /\ last_call = [op |-> "none", ret |-> FALSE]
    /\ evals = 0
    /\ missedAt = [t \in {} |-> 0]
    /\ cl_in \in [frame : ScoreFrames]
    /\ cl_out = NoSignal
    /\ rerun = NoRerun

CalculateScore ==
    /\ cl_out = NoSignal
    /\ cl_out' = [composite_score |-> calculate_composite_score(cl_in.frame)]
    /\ UNCHANGED <<monitorVars, cl_in, rerun>>

NextScore == CalculateScore

SpecScore == InitScore /\ [][NextScore]_vars

(***************************************************************************)
(* SpecSessions: monitoring sessions one after the other, the risk engine  *)
(* taken by its contract as in SpecLoop.  start_monitoring is called when  *)
(* no worker of an earlier session is left, so that every stamp in         *)
(* last_signal_time made by a worker other than the running one dates from *)
(* a session that was stopped.                                             *)
(***************************************************************************)
StartNextSession ==
    /\ \A w \in DOMAIN threads : ~Alive(threads[w])
    /\ StartMonitoring

NextSessions ==
    \/ Tick
    \/ StartNextSession
    \/ StopMonitoring
    \/ \E w \in DOMAIN threads : WorkerHead(w)
    \/ \E w \in DOMAIN threads : WorkerIterLoop(w)
    \/ \E w \in DOMAIN threads : WorkerEmit(w)
    \/ \E w \in DOMAIN threads : WorkerSms(w)
    \/ \E w \in DOMAIN threads : WorkerWake(w)

SpecSessions == Init /\ [][NextSessions]_vars

(***************************************************************************)
(* SpecOverlap: start_monitoring and stop_monitoring called in any order   *)
(* as in Spec, so that a worker of a stopped session can still be running  *)
(* when the next one starts, with the risk engine taken by its contract    *)
(* and returning.  No phone number is given, and every evaluation is of    *)
(* bars that classify as an alert-eligible BUY or of no bars.              *)
(***************************************************************************)
StartWithoutPhone ==
    /\ StartMonitoring
    /\ \A w \in DOMAIN threads' : threads'[w].alert_phone = NoPhone

OverlapInputs ==
    {[data |-> d, position |-> "FLAT"] : d \in NoData \cup Bars(70, 1)}

WorkerIterOverlap(w) ==
    \E in \in OverlapInputs :
        ForLoop(w, AnalyzeWith(in.data, in.position, Returned("risk_params")),
                in.data, in.position)

NextOverlap ==
    \/ Tick
    \/ StartWithoutPhone
    \/ StopMonitoring
    \/ \E w \in DOMAIN threads : WorkerHead(w)
    \/ \E w \in DOMAIN threads : WorkerIterOverlap(w)
    \/ \E w \in DOMAIN threads : WorkerEmit(w)
    \/ \E w \in DOMAIN threads : WorkerWake(w)

SpecOverlap == Init /\ [][NextOverlap]_vars

(***************************************************************************)
(* SpecWatchlist: one monitoring session of the program as written, with   *)
(* the user adding tickers to and removing tickers from the watchlist      *)
(* (app.py 195-196, 265-266).  start_monitoring is handed the list object  *)
(* st.session_state.selected_stocks itself (app.py 113-114), and the "for  *)
(* ticker in watchlist" of the worker reads that list by position.         *)
(***************************************************************************)
TickerChoices == {"AAA", "BBB", "CCC"}

RECURSIVE ListRemove(_, _)
\* list.remove(x): the first occurrence goes, the rest moves up
ListRemove(list, x) ==
    IF list = <<>> THEN <<>>
    ELSE IF Head(list) = x THEN Tail(list)
    ELSE <<Head(list)>> \o ListRemove(Tail(list), x)

InList(list, x) == \E n \in DOMAIN list : list[n] = x

AddTicker ==
    /\ calls < MaxCalls
    /\ \E ticker \in TickerChoices :
         /\ ~InList(selected_stocks, ticker)
         /\ selected_stocks' = Append(selected_stocks, ticker)
    /\ calls' = calls + 1
    /\ last_call' = [op |-> "add", ret |-> TRUE]
    /\ UNCHANGED <<clock, ticks, monitoring_active, stop_event, monitoring_thread,
                   last_signal_time, threads, app_alerts, alert_log, twilio_configured,
                   evals, missedAt, cl_in, cl_out, rerun>>

RemoveTicker ==
    /\ calls < MaxCalls
    /\ \E current_stock \in TickerChoices :
         /\ InList(selected_stocks, current_stock)
         /\ selected_stocks' = ListRemove(selected_stocks, current_stock)
    /\ calls' = calls + 1
    /\ last_call' = [op |-> "remove", ret |-> TRUE]
    /\ UNCHANGED <<clock, ticks, monitoring_active, stop_event, monitoring_thread,
                   last_signal_time, threads, app_alerts, alert_log, twilio_configured,
                   evals, missedAt, cl_in, cl_out, rerun>>

NextWatchlist ==
    \/ Tick
    \/ StartSession
    \/ StopMonitoring
    \/ AddTicker
    \/ RemoveTicker
    \/ \E w \in DOMAIN threads : WorkerHead(w)
    \/ \E w \in DOMAIN threads : WorkerIter(w)
    \/ \E w \in DOMAIN threads : WorkerWake(w)

SpecWatchlist == Init /\ [][NextWatchlist]_vars

(***************************************************************************)
(* SpecAlerts: notify_app_alert called again and again, for one ticker and *)
(* signal type per behaviour.  calls counts the calls and is the time      *)
(* stamp of the alert a call adds.                                         *)
(***************************************************************************)
MaxNotifications == 53
AlertKinds == [ticker : {"AAA", "BBB"}, signal_type : {"BUY", "SELL", "SHORT", "COVER"}]

InitAlerts ==
    /\ clock = 0
    /\ ticks = 0
    /\ monitoring_active = FALSE
    /\ stop_event = FALSE
    /\ monitoring_thread = 0
    /\ last_signal_time = [t \in {} |-> 0]
    /\ threads = <<>>
    /\ selected_stocks = <<>>
    /\ app_alerts = <<>>
    /\ alert_log = <<>>
    /\ twilio_configured = FALSE
    /\ calls = 0
    /\ last_call = [op |-> "none", ret |-> FALSE]
    /\ evals = 0
    /\ missedAt = [t \in {} |-> 0]
    /\ cl_in \in AlertKinds
    /\ cl_out = NoSignal
    /\ rerun = NoRerun

NotifyAppAlert ==
    /\ calls < MaxNotifications
    /\ calls' = calls + 1
    /\ app_alerts' = notify_app_alert(app_alerts, cl_in.ticker, cl_in.signal_type, 70,
                                      calls + 1, [strength |-> 700, evalAt |-> calls + 1,
                                                  freq |-> 0, by |-> 0])
    /\ UNCHANGED <<clock, ticks, monitoring_active, stop_event, monitoring_thread,
                   last_signal_time, threads, selected_stocks, alert_log,
                   twilio_configured, last_call, evals, missedAt, cl_in, cl_out, rerun>>

NextAlerts == NotifyAppAlert

SpecAlerts == InitAlerts /\ [][NextAlerts]_vars

(***************************************************************************)
(* SpecUI: one monitoring session, the risk engine taken by its contract   *)
(* and returning, together with the runs of the app.py script that render  *)
(* the unread alerts in the sidebar (app.py 130-154).  The worker thread   *)
(* and the script run share st.session_state.app_alerts; a run takes its   *)
(* list of unread alerts once (line 131) and then, alert by alert,         *)
(* displays it and marks one entry of app_alerts as read (lines 134-154).  *)
(* An alert is known by its ticker and time stamp.                         *)
(***************************************************************************)
AlertId(a) == <<a.ticker, a.timestamp>>

IsUnread(a) == ~a.is_read

\* line 131: unread_alerts
UnreadAlerts(alerts) ==
    LET unread == SelectSeq(alerts, IsUnread)
    IN  [n \in DOMAIN unread |-> AlertId(unread[n])]

\* line 154: len(app_alerts) - len(unread_alerts) + i, counted from 1
MarkedPosition(alerts, unread_alerts, i) == Len(alerts) - Len(unread_alerts) + i

StartUiSession == threads = <<>> /\ StartWithoutPhone

\* lines 130-133: a run of the script reaches the sidebar with unread alerts
RerunBegin ==
    /\ rerun = NoRerun
    /\ calls < MaxCalls
    /\ UnreadAlerts(app_alerts) /= <<>>
    /\ rerun' = [unread_alerts |-> UnreadAlerts(app_alerts), i |-> 1]
    /\ calls' = calls + 1
    /\ last_call' = [op |-> "rerun", ret |-> TRUE]
    /\ UNCHANGED <<clock, ticks, monitoring_active, stop_event, monitoring_thread,
                   last_signal_time, threads, selected_stocks, app_alerts, alert_log,
                   twilio_configured, evals, missedAt, cl_in, cl_out>>

\* lines 134-154: one pass of the loop, the display of unread_alerts[i] and the
\* mark
RerunAlert ==
    /\ rerun /= NoRerun
    /\ LET id == rerun.unread_alerts[rerun.i]
           k == MarkedPosition(app_alerts, rerun.unread_alerts, rerun.i)
       IN  app_alerts' = [n \in DOMAIN app_alerts |->
                             [app_alerts[n] EXCEPT
                                 !.shown = @ \/ AlertId(app_alerts[n]) = id,
                                 !.is_read = @ \/ n = k]]
    /\ rerun' = IF rerun.i = Len(rerun.unread_alerts) THEN NoRerun
                ELSE [rerun EXCEPT !.i = @ + 1]
    /\ UNCHANGED <<clock, ticks, monitoring_active, stop_event, monitoring_thread,
                   last_signal_time, threads, selected_stocks, alert_log,
                   twilio_configured, calls, last_call, evals, missedAt, cl_in, cl_out>>

NextUI ==
    \/ Tick
    \/ StartUiSession
    \/ StopMonitoring
    \/ RerunBegin
    \/ RerunAlert
    \/ \E w \in DOMAIN threads : WorkerHead(w)
    \/ \E w \in DOMAIN threads : WorkerIterOverlap(w)
    \/ \E w \in DOMAIN threads : WorkerEmit(w)
    \/ \E w \in DOMAIN threads : WorkerWake(w)

SpecUI == Init /\ [][NextUI]_vars

(***************************************************************************)
(* The claims.                                                             *)
(***************************************************************************)
\* a step of thread w of the monitoring loop
WorkerStep(w) == calls' = calls /\ threads'[w] /= threads[w]

\* C1 (as claimed): once stop_monitoring has returned True, a worker that was
\* running at that moment starts no further tick.
C1_StoppedWorkerStartsNoTick ==
    \A w \in DOMAIN threads : ~threads[w].tickAfterStop

\* C2 (as claimed): of two alert-eligible evaluations of one ticker less than
\* alert_frequency minutes apart exactly one emits an alert: the second never
\* finds the first without its alert and goes without an alert itself.
C2_ExactlyOneAlertWithinCooldown ==
    \A w \in DOMAIN threads : threads[w].last /= "missed again"

\* C3 (as claimed): an alert-eligible evaluation of a ticker with no alert for
\* that ticker in the last alert_frequency minutes emits an alert, and
\* last_signal_time holds a stamp for a ticker only if an alert for that ticker
\* was appended.
C3_EligibleEvaluationAlerts ==
    /\ \A w \in DOMAIN threads : threads[w].last \notin {"missed", "missed again"}
    /\ \A t \in DOMAIN last_signal_time :
           \E k \in DOMAIN app_alerts : app_alerts[k].ticker = t

\* C4: every in-app alert, every SMS and every alert in the making carries an
\* action of BUY, SELL, SHORT, COVER and a strength above 0.65.
C4_AlertsAreSignificantActions ==
    /\ \A k \in DOMAIN app_alerts :
           /\ app_alerts[k].signal_type \in {"BUY", "SELL", "SHORT", "COVER"}
           /\ app_alerts[k].origin.strength > 650
    /\ \A k \in DOMAIN alert_log :
           alert_log[k].signal_type \in {"BUY", "SELL", "SHORT", "COVER"}
    /\ \A w \in DOMAIN threads :
           threads[w].pc \in {"emit", "sms"} =>
               /\ threads[w].sig.type \in {"BUY", "SELL", "SHORT", "COVER"}
               /\ threads[w].sig.strength > 650

C4_Witness ==
    /\ Len(app_alerts) > 0
    /\ Len(alert_log) > 0
    /\ \E w \in DOMAIN threads : threads[w].last = "quiet"

OutsideActiveHours(c) == Hour(c) < 9 \/ Hour(c) >= 16 \/ Weekday(c) >= 5

\* C5: a pass of the for loop taken outside the active hours only moves on to
\* the next ticker: no analysis, no alert, no SMS, last_signal_time unchanged.
C5_ClosedHoursNoAlert ==
    [][\A w \in DOMAIN threads :
          (/\ WorkerStep(w)
           /\ threads[w].pc = "iter"
           /\ threads[w].i <= Len(selected_stocks)
           /\ OutsideActiveHours(clock))
          => (/\ threads'[w].pc = "iter"
              /\ threads'[w].i = threads[w].i + 1
              /\ evals' = evals
              /\ app_alerts' = app_alerts
              /\ alert_log' = alert_log
              /\ last_signal_time' = last_signal_time)]_vars

C5_Witness ==
    \E w \in DOMAIN threads :
        /\ threads[w].last = "closed"
        /\ threads[w].i = 2
        /\ Len(app_alerts) > 0

\* C6: a pass of the for loop in which the evaluation of a ticker or its SMS
\* fails leaves the worker in the for loop, at the next ticker.
C6_FailureDoesNotAbort ==
    [][\A w \in DOMAIN threads :
          (/\ WorkerStep(w)
           /\ threads[w].pc \in {"iter", "sms"}
           /\ threads'[w].last \in {"failed", "missed", "missed again", "sms failed"}
           /\ threads'[w].last /= threads[w].last \/ evals' /= evals)
          => (/\ threads'[w].pc = "iter"
              /\ threads'[w].i = threads[w].i + 1)]_vars

C6_Witness ==
    \E w \in DOMAIN threads :
        /\ threads[w].last \in {"failed", "missed", "missed again"}
        /\ threads[w].pc = "iter"
        /\ threads[w].i = 2
        /\ Len(app_alerts) > 0

\* C7: the SMS step never changes the in-app alerts, it is reached only with a
\* phone number and only after the alert in the making is in the in-app list.
C7_InAppAlertIndependentOfSms ==
    /\ [](\A w \in DOMAIN threads :
             threads[w].pc = "sms" =>
                 /\ threads[w].alert_phone /= NoPhone
                 /\ \E k \in DOMAIN app_alerts :
                        /\ app_alerts[k].ticker = threads[w].ticker
                        /\ app_alerts[k].signal_type = threads[w].sig.type)
    /\ [][\A w \in DOMAIN threads :
             (WorkerStep(w) /\ threads[w].pc = "sms") => app_alerts' = app_alerts]_vars

C7_Witness ==
    /\ \E w \in DOMAIN threads : threads[w].last = "sms failed"
    /\ \E k \in DOMAIN alert_log : alert_log[k].status = "failed"
    /\ Len(app_alerts) > 0

\* C8: start_monitoring called while monitoring_active returns False and leaves
\* stop_event, monitoring_active, monitoring_thread, last_signal_time and the
\* threads as they are.
C8_StartWhileActiveIsNoOp ==
    [][(calls' = calls + 1 /\ last_call'.op = "start" /\ monitoring_active)
       => (/\ last_call'.ret = FALSE
           /\ UNCHANGED <<stop_event, monitoring_active, monitoring_thread,
                          last_signal_time, threads>>)]_vars

C8_Witness ==
    /\ last_call = [op |-> "start", ret |-> FALSE]
    /\ monitoring_active
    /\ Len(threads) = 1

\* C9: stop_monitoring called while not monitoring_active returns False and
\* changes nothing, also right after a stop_monitoring that returned True.
C9_StopIsIdempotent ==
    [][(calls' = calls + 1 /\ last_call'.op = "stop" /\ ~monitoring_active)
       => (/\ last_call'.ret = FALSE
           /\ UNCHANGED <<stop_event, monitoring_active, monitoring_thread,
                          last_signal_time, threads>>)]_vars

C9_Witness ==
    /\ last_call = [op |-> "stop", ret |-> FALSE]
    /\ stop_event
    /\ ~monitoring_active

\* the classifier's input, read as the claims read it
ClLatest == cl_in.df.rows[Len(cl_in.df.rows)]
ClPrev == IF Len(cl_in.df.rows) > 1 THEN cl_in.df.rows[Len(cl_in.df.rows) - 1] ELSE ClLatest
ClBullishCross ==
    \/ ClLatest.MACD > ClLatest.MACD_signal /\ ClPrev.MACD <= ClPrev.MACD_signal
    \/ /\ cl_in.df.ma_cols >= 2
       /\ ClLatest.MA_short > ClLatest.MA_long /\ ClPrev.MA_short <= ClPrev.MA_long
Classified == cl_out /= NoSignal

\* C10 (as claimed): FLAT yields BUY exactly when score > 0.6 and a bullish
\* cross occurred and the discrete signal is +1, and WAIT when score > 0.6 and a
\* bullish cross occurred and the discrete signal is not +1.
C10_BuyNeedsScoreAndCross ==
    (Classified /\ cl_in.position = "FLAT") =>
        /\ (cl_out.type = "BUY") <=>
               (ClLatest.composite_score > 60 /\ ClBullishCross /\ ClLatest.signal = 1)
        /\ (ClLatest.composite_score > 60 /\ ClBullishCross /\ ClLatest.signal /= 1)
               => cl_out.type = "WAIT"

\* C10 (amended): FLAT yields BUY exactly when (score > 0.6 or a bullish cross
\* occurred) and the discrete signal is +1, and WAIT when (score > 0.6 or a
\* bullish cross occurred) and the discrete signal is not +1.
C10_BuyNeedsScoreOrCross ==
    (Classified /\ cl_in.position = "FLAT") =>
        /\ (cl_out.type = "BUY") <=>
               ((ClLatest.composite_score > 60 \/ ClBullishCross) /\ ClLatest.signal = 1)
        /\ ((ClLatest.composite_score > 60 \/ ClBullishCross) /\ ClLatest.signal /= 1)
               => cl_out.type = "WAIT"

C10_Witness ==
    /\ Classified
    /\ cl_in.position = "FLAT"
    /\ cl_out.type = "BUY"
    /\ ClLatest.composite_score > 60
    /\ ~ClBullishCross

ClBearishCross ==
    \/ ClLatest.MACD < ClLatest.MACD_signal /\ ClPrev.MACD >= ClPrev.MACD_signal
    \/ /\ cl_in.df.ma_cols >= 2
       /\ ClLatest.MA_short < ClLatest.MA_long /\ ClPrev.MA_short >= ClPrev.MA_long
ClBullish == ClLatest.composite_score > 60 \/ ClBullishCross
ClBearish == ClLatest.composite_score < 40 \/ ClBearishCross

\* C11 (as claimed): FLAT yields SHORT exactly when score < 0.4 and a bearish
\* cross occurred and the discrete signal is -1; every FLAT result that is
\* neither BUY nor SHORT is WAIT.
C11_ShortNeedsScoreAndCross ==
    (Classified /\ cl_in.position = "FLAT") =>
        /\ (cl_out.type = "SHORT") <=>
               (ClLatest.composite_score < 40 /\ ClBearishCross /\ ClLatest.signal = -1)
        /\ cl_out.type \notin {"BUY", "SHORT"} => cl_out.type = "WAIT"

\* C11 (amended): FLAT yields SHORT exactly when there is no bullish evidence
\* (score > 0.6 or a bullish cross), and score < 0.4 or a bearish cross
\* occurred, and the discrete signal is -1; every FLAT result that is neither
\* BUY nor SHORT is WAIT.
C11_ShortNeedsScoreOrCross ==
    (Classified /\ cl_in.position = "FLAT") =>
        /\ (cl_out.type = "SHORT") <=>
               (~ClBullish /\ ClBearish /\ ClLatest.signal = -1)
        /\ cl_out.type \notin {"BUY", "SHORT"} => cl_out.type = "WAIT"

C11_Witness ==
    /\ Classified
    /\ cl_in.position = "FLAT"
    /\ cl_out.type = "SHORT"
    /\ ClLatest.composite_score < 40
    /\ ~ClBearishCross

\* C12: for a held ticker, LONG yields SELL exactly when score < 0.4 or a
\* bearish cross occurred and HOLD otherwise; SHORT yields COVER exactly when
\* score > 0.6 or a bullish cross occurred and HOLD otherwise.
C12_HeldPositionClosesOnAdverseEvidence ==
    /\ (Classified /\ cl_in.position = "LONG") =>
           /\ cl_out.type = (IF ClBearish THEN "SELL" ELSE "HOLD")
    /\ (Classified /\ cl_in.position = "SHORT") =>
           /\ cl_out.type = (IF ClBullish THEN "COVER" ELSE "HOLD")

C12_Witness ==
    /\ Classified
    /\ cl_in.position = "LONG"
    /\ cl_out.type = "SELL"
    /\ ClLatest.composite_score >= 40
    /\ ClBearishCross

\* C13: the strength returned is the score for BUY and COVER, 1 - score for
\* SELL and SHORT and 0.5 for HOLD, whatever the position (score in
\* hundredths, strength in thousandths).
C13_StrengthOfActions ==
    Classified =>
        /\ cl_out.type \in {"BUY", "COVER"} => cl_out.strength = 10 * ClLatest.composite_score
        /\ cl_out.type \in {"SELL", "SHORT"} =>
               cl_out.strength = 1000 - 10 * ClLatest.composite_score
        /\ cl_out.type = "HOLD" => cl_out.strength = 500
        /\ cl_out.score = ClLatest.composite_score

C13_Witness ==
    /\ Classified
    /\ cl_out.type = "SELL"
    /\ ClLatest.composite_score = 35
    /\ cl_out.strength = 650

\* C14 (as claimed): every WAIT carries score x 0.7 or (1 - score) x 0.7 and
\* no other strength.
C14_WaitIsDampened ==
    (Classified /\ cl_out.type = "WAIT") =>
        \/ cl_out.strength = 7 * ClLatest.composite_score
        \/ cl_out.strength = 7 * (100 - ClLatest.composite_score)

\* C14 (amended): a WAIT carries score x 0.7 when there is bullish evidence,
\* (1 - score) x 0.7 when there is bearish evidence and no bullish evidence,
\* and exactly 0.5 when there is neither.
C14_WaitIsDampenedUnlessNeutral ==
    (Classified /\ cl_out.type = "WAIT") =>
        cl_out.strength = (IF ClBullish THEN 7 * ClLatest.composite_score
                           ELSE IF ClBearish THEN 7 * (100 - ClLatest.composite_score)
                           ELSE 500)

C14_Witness ==
    /\ Classified
    /\ cl_out.type = "WAIT"
    /\ ~ClBullish
    /\ ~ClBearish
    /\ cl_out.strength = 500

\* the four crossover predicates of the bar in cl_in, and the signal made of them
SgVotes == {k \in DOMAIN cl_in.bar :
               cl_in.bar[k].name \in {<<"ma", "cross">>, <<"rsi", "signal">>,
                                      <<"macd", "cross">>, <<"bb", "signal">>}}
SgPlus == Cardinality({k \in SgVotes : cl_in.bar[k].value = 1})
SgMinus == Cardinality({k \in SgVotes : cl_in.bar[k].value = -1})
SgDone == cl_out /= NoSignal

\* C15 (as claimed): the discrete signal of a bar is +1 if at least two of the
\* four crossover predicates are +1, -1 if at least two are -1 (either of the
\* two when both hold) and 0 otherwise: only the four predicates vote.
C15_SignalIsTwoOfFourVotes ==
    SgDone =>
        /\ (SgPlus >= 2 /\ SgMinus < 2) => cl_out.signal = 1
        /\ (SgMinus >= 2 /\ SgPlus < 2) => cl_out.signal = -1
        /\ (SgPlus >= 2 /\ SgMinus >= 2) => cl_out.signal \in {1, -1}
        /\ (SgPlus < 2 /\ SgMinus < 2) => cl_out.signal = 0


(***************************************************************************)
(* Claims on calculate_risk_parameters (SpecRisk).                         *)
(***************************************************************************)
RkDone == cl_out /= NoSignal
RkReturned == RkDone /\ ~cl_out.raised
RkBullish == cl_in.composite_score > BullishScore
RkBearish == cl_in.composite_score < BearishScore
RkRisk == Abs(cl_out.value.entry_price - cl_out.value.stop_loss)
RkReward == Abs(cl_out.value.take_profit - cl_out.value.entry_price)
RkCap == (Money(cl_in.price) * cl_in.risk_percentage) \div 1000

C19_RiskParametersNeverRaise ==
    (RkDone /\ cl_in.binding = "keys") => ~cl_out.raised


(***************************************************************************)
(* Claims on analyze_stock (SpecAnalyze).                                  *)
(***************************************************************************)
AnDone == cl_out /= NoSignal
AnFailure ==
    \/ cl_in.data.fetched = "none"
    \/ cl_in.data.pipeline = "raise"
    \/ cl_in.risk.raised

\* C20: no exception leaves analyze_stock, and the call returns None when
\* there are no bars or when any step of the analysis raises.
C20_AnalyzeStockNeverRaises ==
    AnDone => /\ ~cl_out.raised
              /\ AnFailure => cl_out = None

C20_Witness ==
    /\ AnDone
    /\ cl_in.data.fetched = "bars"
    /\ cl_in.data.pipeline = "ok"
    /\ cl_in.risk = Raised("TypeError")
    /\ cl_out = None


(***************************************************************************)
(* Claims on the RSI of calculate_indicators (SpecRsi).                    *)
(***************************************************************************)
RsiDone == cl_out /= NoSignal
RsiFlat == \A n \in 1..RsiWindow : cl_in.delta[n] = 0
RsiGainsOnly ==
    /\ \A n \in 1..RsiWindow : cl_in.delta[n] >= 0
    /\ \E n \in 1..RsiWindow : cl_in.delta[n] > 0

\* C21: a bar with no price change over the RSI window gets RSI 50, a bar
\* with gains only gets RSI 100.
C21_FlatRsiIsFifty ==
    RsiDone => /\ RsiFlat => cl_out.RSI = 5000
               /\ RsiGainsOnly => cl_out.RSI = 10000


(***************************************************************************)
(* Claims on calculate_composite_score (SpecScore).                        *)
(***************************************************************************)
ScDone == cl_out /= NoSignal

\* C22: the composite score of every row of the frame is a number between 0
\* and 1, also in a row whose Bollinger range or long moving average is 0.
C22_CompositeScoreInUnitInterval ==
    ScDone => \A n \in 1..FrameLen :
                  /\ cl_out.composite_score[n].tag = "num"
                  /\ cl_out.composite_score[n].val >= 0
                  /\ cl_out.composite_score[n].val <= 1000


\* C23: a call of the SMS sender that does not deliver (credentials missing,
\* or the send raising) appends a 'failed' entry to the alert log and returns
\* False to the worker, which goes on; no exception leaves the call.
C23_FailedSmsIsLoggedAndFalse ==
    [][\A w \in DOMAIN threads :
          (/\ WorkerStep(w)
           /\ threads[w].pc = "sms"
           /\ threads'[w].last = "sms failed")
          => (/\ threads'[w].pc /= "crashed"
              /\ Len(alert_log') = Len(alert_log) + 1
              /\ alert_log'[Len(alert_log')].status = "failed")]_vars



(***************************************************************************)
(* Claims on sessions that follow one another (SpecSessions).              *)
(***************************************************************************)
\* the stamp of ticker was made by worker w itself
StampedBy(w, ticker) ==
    \E k \in DOMAIN app_alerts :
        /\ app_alerts[k].ticker = ticker
        /\ app_alerts[k].timestamp = last_signal_time[ticker]
        /\ app_alerts[k].origin.by = w

C26_TickCoversWatchlistInOrder ==
    [][\A w \in DOMAIN threads :
          (WorkerStep(w) /\ threads[w].pc = "iter")
          => IF threads[w].i > Len(selected_stocks)
             THEN threads[w].i = Len(threads[w].atStart) + 1
             ELSE /\ threads[w].i <= Len(threads[w].atStart)
                  /\ selected_stocks[threads[w].i] = threads[w].atStart[threads[w].i]]_vars


(***************************************************************************)
(* Claims on the worker threads of the program as written (Spec).          *)
(***************************************************************************)
\* C27: at no moment are two _monitor_stocks threads running.
C27_AtMostOneWorkerRunning ==
    \A v, w \in DOMAIN threads :
        (Alive(threads[v]) /\ Alive(threads[w])) => v = w


\* C28: while monitoring_active is True the thread that the latest
\* start_monitoring started is running.
C28_ActiveFlagMeansWorkerAlive ==
    monitoring_active =>
        /\ monitoring_thread \in DOMAIN threads
        /\ Alive(threads[monitoring_thread])

\* the flag is True in a second session whose worker has been through a tick
\* in which an analysis failed
C28_Witness ==
    /\ monitoring_active
    /\ monitoring_thread = 2
    /\ threads[2].pc = "sleep"
    /\ threads[2].last \in {"failed", "missed", "missed again"}


(***************************************************************************)
(* Claims on the in-app alert list (SpecAlerts).                           *)
(***************************************************************************)
\* C29: after any number of notify_app_alert calls the list holds at most 50
\* alerts, and they are the latest ones added, in the order of their adding.
C29_LatestFiftyAlertsInOrder ==
    /\ Len(app_alerts) <= AlertCap
    /\ Len(app_alerts) = Min2(calls, AlertCap)
    /\ \A k \in DOMAIN app_alerts :
           app_alerts[k].timestamp = calls - Len(app_alerts) + k

\* three alerts more than the list holds have been added
C29_Witness ==
    /\ calls = AlertCap + 3
    /\ Len(app_alerts) = AlertCap
    /\ app_alerts[1].timestamp = 4
    /\ app_alerts[AlertCap].timestamp = AlertCap + 3


====
